---- MODULE Spec2Model ----
(***************************************************************************)
(* Model of the lag-feature routine prepareData, its chronological split   *)
(* helper timeseries_train_test_split, the category-mean helper code_mean  *)
(* and the notebook helper moving_average.                                 *)
(*                                                                         *)
(* A data frame is a sequence of rows; a row is [t |-> timestamp,          *)
(* c |-> [column -> cell]].  Timestamps are hours since a Monday 00:00.    *)
(* Every cell is a reduced fraction <<num, den>>; NaN is <<0, 0>>.         *)
(* test_size is a fraction <<num, den>> with a power-of-two denominator,   *)
(* so that 1 - test_size and len * (1 - test_size) are exact in binary     *)
(* floating point and int() is truncation of the exact product.            *)
(***************************************************************************)
EXTENDS Integers, Sequences, FiniteSets, TLC

VARIABLES series, lag_start, lag_end, test_size, target_encoding,
          data, test_index, X_train, X_test, y_train, y_test, pc, outcome,
          n, average

vars == <<series, lag_start, lag_end, test_size, target_encoding,
          data, test_index, X_train, X_test, y_train, y_test, pc, outcome,
          n, average>>

(* ---------------------------- bounds ---------------------------------- *)
MaxLen == 4
MaxLag == 3

\* values of the series
Values == {1, 2}
\* distance in hours between consecutive timestamps: next hour, same hour
\* of the next day, same hour and weekday of the next week
Gaps == {1, 24, 168}
\* Friday 23:00
StartTimes == {4 * 24 + 23}
\* test_size values: -1/4, 0, 1/4, 1/2, 3/4, 1, 5/4
TestSizes == {<<k, 4>> : k \in -1..5}

(* ------------------------- cells and columns -------------------------- *)
NaN == <<0, 0>>

RECURSIVE GCD(_, _)
GCD(a, b) == IF b = 0 THEN a ELSE GCD(b, a % b)

Abs(a) == IF a < 0 THEN -a ELSE a

\* the fraction a/b (b > 0) in lowest terms
Rat(a, b) == LET g == GCD(Abs(a), b) IN <<a \div g, b \div g>>

Num(v) == <<v, 1>>

ColY == <<"y", 0>>
ColLag(i) == <<"lag", i>>
ColHour == <<"hour", 0>>
ColWeekday == <<"weekday", 0>>
ColIsWeekend == <<"is_weekend", 0>>
ColWeekdayAverage == <<"weekday_average", 0>>
ColHourAverage == <<"hour_average", 0>>

\* DatetimeIndex.hour and DatetimeIndex.weekday (Monday = 0)
Hour(t) == t % 24
Weekday(t) == (t \div 24) % 7

(* --------------------------- Python / pandas -------------------------- *)
\* int(len * (1 - test_size)): truncation towards zero
TestIndex(len, ts) ==
    LET a == len * (ts[2] - ts[1])
    IN  IF a >= 0 THEN a \div ts[2] ELSE -((-a) \div ts[2])

\* the position a Python slice bound k denotes in a sequence of length len
SliceBound(k, len) ==
    IF k < 0 THEN (IF len + k < 0 THEN 0 ELSE len + k)
    ELSE (IF k > len THEN len ELSE k)

\* s[:k]
SliceTo(s, k) == SubSeq(s, 1, SliceBound(k, Len(s)))

\* s[k:]
SliceFrom(s, k) == SubSeq(s, SliceBound(k, Len(s)) + 1, Len(s))

\* Series.shift(i) of the column col
shift(d, col, i) ==
    [p \in 1..Len(d) |->
        IF p - i \in 1..Len(d) THEN d[p - i].c[col] ELSE NaN]

RECURSIVE SelectRows(_, _)
SelectRows(d, keep) ==
    IF d = <<>> THEN <<>>
    ELSE IF Len(d) \in keep
         THEN Append(SelectRows(SubSeq(d, 1, Len(d) - 1), keep), d[Len(d)])
         ELSE SelectRows(SubSeq(d, 1, Len(d) - 1), keep)

RowHasNaN(r) == \E col \in DOMAIN r.c : r.c[col] = NaN

\* DataFrame.dropna()
dropna(d) == SelectRows(d, {p \in 1..Len(d) : ~RowHasNaN(d[p])})

\* DataFrame.drop(cols, axis=1)
drop(d, cols) ==
    [p \in 1..Len(d) |->
        [t |-> d[p].t, c |-> [col \in (DOMAIN d[p].c) \ cols |-> d[p].c[col]]]]

\* data[col] = column
assign(d, col, column) ==
    [p \in 1..Len(d) |->
        [t |-> d[p].t, c |-> (col :> column[p]) @@ d[p].c]]

\* the single column col with its index
Column(d, col) == [p \in 1..Len(d) |-> [t |-> d[p].t, v |-> d[p].c[col]]]

\* the values of a single column
Cells(column) == [p \in 1..Len(column) |-> column[p].v]

RECURSIVE SumNum(_)
SumNum(cells) ==
    IF cells = <<>> THEN 0 ELSE cells[1][1] + SumNum(Tail(cells))

(* ------------------------------ prepareData --------------------------- *)
\* data = pd.DataFrame(series.copy()); data.columns = ["y"]
CopySeries(s) ==
    [p \in 1..Len(s) |-> [t |-> s[p].t, c |-> (ColY :> Num(s[p].y))]]

RECURSIVE AddLagsOffByOne(_, _, _)
\* AddLags with the column lag_i filled from shift(i + 1)
AddLagsOffByOne(d, from, to) ==
    IF from >= to THEN d
    ELSE AddLagsOffByOne(assign(d, ColLag(from), shift(d, ColY, from + 1)),
                         from + 1, to)

RECURSIVE AddLags(_, _, _)
\* for i in range(from, to): data["lag_i"] = data.y.shift(i)
AddLags(d, from, to) ==
    IF from >= to THEN d
    ELSE AddLags(assign(d, ColLag(from), shift(d, ColY, from)), from + 1, to)

\* data["hour"], data["weekday"], data["is_weekend"]
AddDatetimeFeatures(d) ==
    LET d1 == assign(d, ColHour, [p \in 1..Len(d) |-> Num(Hour(d[p].t))])
        d2 == assign(d1, ColWeekday, [p \in 1..Len(d) |-> Num(Weekday(d[p].t))])
    IN  assign(d2, ColIsWeekend,
               [p \in 1..Len(d) |->
                   IF d2[p].c[ColWeekday] \in {Num(5), Num(6)} THEN Num(1) ELSE Num(0)])

\* np.mean / np.average of a sequence of integer-valued cells
Mean(cells) ==
    IF cells = <<>> THEN NaN ELSE Rat(SumNum(cells), Len(cells))

\* dict(data.groupby(cat_feature)[real_feature].mean())
code_mean(d, cat_feature, real_feature) ==
    [k \in {d[p].c[cat_feature] : p \in 1..Len(d)} |->
        Mean(Cells(Column(SelectRows(d, {p \in 1..Len(d) : d[p].c[cat_feature] = k}),
                          real_feature)))]

\* dict.get with a default of zero for a key that is absent
getDefaultZero(dict, k) == IF k \in DOMAIN dict THEN dict[k] ELSE Num(0)

\* dict.get: None (a missing value of the column) for a key that is absent
get(dict, k) == IF k \in DOMAIN dict THEN dict[k] ELSE NaN

\* the body of "if target_encoding:"
AddTargetEncoding(d, ts) ==
    LET ti == TestIndex(Len(dropna(d)), ts)
        wd == code_mean(SliceTo(d, ti), ColWeekday, ColY)
        d1 == assign(d, ColWeekdayAverage,
                     [p \in 1..Len(d) |-> get(wd, d[p].c[ColWeekday])])
        hr == code_mean(SliceTo(d1, ti), ColHour, ColY)
        d2 == assign(d1, ColHourAverage,
                     [p \in 1..Len(d) |-> get(hr, d1[p].c[ColHour])])
    IN  drop(d2, {ColHour, ColWeekday})

\* timeseries_train_test_split with the test partition starting one row early
SplitOverlapping(X, y, ts) ==
    LET ti == TestIndex(Len(X), ts)
    IN  [X_train |-> SliceTo(X, ti),
         y_train |-> SliceTo(y, ti),
         X_test  |-> SliceFrom(X, ti - 1),
         y_test  |-> SliceFrom(y, ti - 1)]

timeseries_train_test_split(X, y, ts) ==
    LET ti == TestIndex(Len(X), ts)
    IN  [X_train |-> SliceTo(X, ti),
         y_train |-> SliceTo(y, ti),
         X_test  |-> SliceFrom(X, ti),
         y_test  |-> SliceFrom(y, ti)]

\* SplitData with the boundary of the target-encoding step (the count of
\* lag-complete rows) instead of the count of the cleaned rows
SplitDataReusedBoundary(d, ts) ==
    LET ti == TestIndex(Len(dropna(drop(d, {ColWeekdayAverage, ColHourAverage}))), ts)
        X == drop(dropna(d), {ColY})
        y == Column(dropna(d), ColY)
    IN  [X_train |-> SliceTo(X, ti),
         y_train |-> SliceTo(y, ti),
         X_test  |-> SliceFrom(X, ti),
         y_test  |-> SliceFrom(y, ti)]

\* y = data.dropna().y; X = data.dropna().drop(['y'], axis=1); split
SplitData(d, ts) ==
    timeseries_train_test_split(drop(dropna(d), {ColY}),
                                Column(dropna(d), ColY), ts)

\* the whole function, as the composition of its statements
prepareData(s, ls, le, ts, te) ==
    LET d1 == AddDatetimeFeatures(AddLags(CopySeries(s), ls, le))
    IN  SplitData(IF te THEN AddTargetEncoding(d1, ts) ELSE d1, ts)

(* ----------------------------- moving_average ------------------------- *)
\* moving_average over the first n observations: np.average(series[:n])
moving_average_first(s, k) == Mean(Cells(SliceTo(s, k)))

\* np.average(series[-n:])
moving_average(s, k) == Mean(Cells(SliceFrom(s, -k)))

(* ------------------------------- inputs ------------------------------- *)
RECURSIVE SumTo(_, _)
SumTo(g, k) == IF k = 0 THEN 0 ELSE g[k] + SumTo(g, k - 1)

\* the series with first timestamp t0, gaps g between timestamps, values ys
MakeSeries(t0, g, ys) ==
    [p \in 1..Len(ys) |-> [t |-> t0 + SumTo(g, p - 1), y |-> ys[p]]]

AllSeries ==
    UNION { { MakeSeries(t0, g, ys) :
                t0 \in StartTimes, g \in [1..(len - 1) -> Gaps],
                ys \in [1..len -> Values] } : len \in 1..MaxLen }

\* hourly series without gaps, for moving_average
HourlySeries ==
    UNION { { MakeSeries(t0, [p \in 1..(len - 1) |-> 1], ys) :
                t0 \in StartTimes, ys \in [1..len -> Values] } : len \in 1..MaxLen }

NoFrame == <<>>

(* ---------------------------- state machine --------------------------- *)
\* the end-to-end example: 100 hourly points with v[i] = i
ExampleSeries ==
    MakeSeries(4 * 24 + 23, [p \in 1..99 |-> 1], [p \in 1..100 |-> p - 1])

\* the moving-average scenario: 10 hourly points all equal to 5
ScenarioSeries ==
    MakeSeries(4 * 24 + 23, [p \in 1..9 |-> 1], [p \in 1..10 |-> 5])

Inputs ==
    \/ /\ series \in AllSeries
       /\ lag_start \in 0..(MaxLag - 1)
       /\ lag_end \in 1..MaxLag
       /\ lag_end >= lag_start
       /\ test_size \in TestSizes
       /\ target_encoding \in BOOLEAN
    \/ /\ series = ExampleSeries
       /\ lag_start = 1 /\ lag_end = 3
       /\ test_size = <<1, 5>>
       /\ target_encoding = FALSE

Init ==
    /\ Inputs
    /\ data = NoFrame
    /\ test_index = 0
    /\ X_train = NoFrame /\ X_test = NoFrame
    /\ y_train = NoFrame /\ y_test = NoFrame
    /\ pc = "lags"
    /\ outcome = "pending"
    /\ n = 0
    /\ average = NaN

\* lines 126-132
Lags ==
    /\ pc = "lags"
    /\ data' = AddLags(CopySeries(series), lag_start, lag_end)
    /\ pc' = "datetime"
    /\ UNCHANGED <<series, lag_start, lag_end, test_size, target_encoding,
                   test_index, X_train, X_test, y_train, y_test, outcome,
                   n, average>>

\* lines 134-138
DatetimeFeatures ==
    /\ pc = "datetime"
    /\ data' = AddDatetimeFeatures(data)
    /\ pc' = "encoding"
    /\ UNCHANGED <<series, lag_start, lag_end, test_size, target_encoding,
                   test_index, X_train, X_test, y_train, y_test, outcome,
                   n, average>>

\* lines 140-149, target_encoding true
TargetEncoding ==
    /\ pc = "encoding"
    /\ target_encoding
    /\ test_index' = TestIndex(Len(dropna(data)), test_size)
    /\ data' = AddTargetEncoding(data, test_size)
    /\ pc' = "split"
    /\ UNCHANGED <<series, lag_start, lag_end, test_size, target_encoding,
                   X_train, X_test, y_train, y_test, outcome, n, average>>

\* line 140, target_encoding false
NoTargetEncoding ==
    /\ pc = "encoding"
    /\ ~target_encoding
    /\ pc' = "split"
    /\ UNCHANGED <<series, lag_start, lag_end, test_size, target_encoding, data,
                   test_index, X_train, X_test, y_train, y_test, outcome,
                   n, average>>

\* lines 151-157
TrainTestSplit ==
    /\ pc = "split"
    /\ LET r == SplitData(data, test_size)
       IN  /\ X_train' = r.X_train
           /\ X_test' = r.X_test
           /\ y_train' = r.y_train
           /\ y_test' = r.y_test
    /\ outcome' = "returned"
    /\ pc' = "done"
    /\ UNCHANGED <<series, lag_start, lag_end, test_size, target_encoding,
                   data, test_index, n, average>>

Next ==
    \/ Lags
    \/ DatetimeFeatures
    \/ TargetEncoding
    \/ NoTargetEncoding
    \/ TrainTestSplit

Spec == Init /\ [][Next]_vars

\* moving_average applied to a series
InitMA ==
    /\ \/ /\ series \in HourlySeries
          /\ n \in -1..(MaxLen + 1)
       \/ /\ series = ScenarioSeries
          /\ n = 3
    /\ lag_start = 1 /\ lag_end = 2
    /\ test_size = <<1, 4>>
    /\ target_encoding = FALSE
    /\ data = NoFrame
    /\ test_index = 0
    /\ X_train = NoFrame /\ X_test = NoFrame
    /\ y_train = NoFrame /\ y_test = NoFrame
    /\ pc = "average"
    /\ outcome = "pending"
    /\ average = NaN

MovingAverage ==
    /\ pc = "average"
    /\ average' = moving_average(Column(CopySeries(series), ColY), n)
    /\ outcome' = "returned"
    /\ pc' = "done"
    /\ UNCHANGED <<series, lag_start, lag_end, test_size, target_encoding,
                   data, test_index, X_train, X_test, y_train, y_test, n>>

NextMA == MovingAverage

SpecMA == InitMA /\ [][NextMA]_vars

TypeOK ==
    /\ pc \in {"lags", "datetime", "encoding", "split", "done", "average"}
    /\ outcome \in {"pending", "returned"}

(* ------------------------------ properties ---------------------------- *)
Done == pc = "done"

ValidWindow == lag_start >= 1 /\ lag_end > lag_start

ValidFraction == 0 < test_size[1] /\ test_size[1] < test_size[2]

\* number of lag-complete rows of the frame
LagComplete == Len(dropna(drop(data, {ColWeekdayAverage, ColHourAverage})))

\* C2: for a valid window and fraction, with L the number of rows of the frame
\* without an undefined value, the train partition is the first
\* floor(L * (1 - test_size)) of those rows and the test partition the rest,
\* so the two lengths add up to L; the boundary comes from L, not from the
\* count the target-encoding step used.
C2_SplitBoundary ==
    (Done /\ ValidWindow /\ ValidFraction) =>
        LET final == dropna(data)
            L == Len(final)
            b == Len(X_train)
            X == drop(final, {ColY})
            y == Column(final, ColY)
        IN  /\ b * test_size[2] <= L * (test_size[2] - test_size[1])
            /\ L * (test_size[2] - test_size[1]) < (b + 1) * test_size[2]
            /\ X_train = SubSeq(X, 1, b)
            /\ X_test = SubSeq(X, b + 1, L)
            /\ y_train = SubSeq(y, 1, b)
            /\ y_test = SubSeq(y, b + 1, L)
            /\ Len(X_train) + Len(X_test) = L

\* rows were dropped for an unseen group, both partitions are non-empty and
\* the final boundary differs from the boundary of the encoding step
C2_Witness ==
    /\ Done /\ ValidWindow /\ ValidFraction /\ target_encoding
    /\ Len(dropna(data)) < LagComplete
    /\ Len(X_train) >= 1 /\ Len(X_test) >= 1
    /\ Len(X_train) # test_index

\* C3: every test row is later than every train row, no row is in both
\* partitions, the returned rows are rows of the series in the order of the
\* series, and the feature and target partitions hold the same rows.
C3_TemporalNonOverlap ==
    Done =>
        LET all == X_train \o X_test
        IN  /\ \A i \in 1..Len(X_test), j \in 1..Len(X_train) :
                   X_test[i].t > X_train[j].t
            /\ {X_train[j].t : j \in 1..Len(X_train)}
                   \cap {X_test[i].t : i \in 1..Len(X_test)} = {}
            /\ \A i \in 1..Len(all) : \E q \in 1..Len(series) : series[q].t = all[i].t
            /\ \A i, j \in 1..Len(all) : i < j => all[i].t < all[j].t
            /\ Len(X_train) = Len(y_train)
            /\ Len(X_test) = Len(y_test)
            /\ \A j \in 1..Len(X_train) : X_train[j].t = y_train[j].t
            /\ \A i \in 1..Len(X_test) : X_test[i].t = y_test[i].t

C3_Witness ==
    /\ Done
    /\ Len(X_train) >= 2
    /\ Len(X_test) >= 1

IsMeanOf(r, cells) ==
    /\ Len(cells) > 0
    /\ r[2] > 0
    /\ r[1] * Len(cells) = r[2] * SumNum(cells)

\* rows of the encoding region of the code: the first test_index rows
InRegion(q) == q <= SliceBound(test_index, Len(series))

UnseenWeekday(p) ==
    \A q \in 1..Len(series) :
        InRegion(q) => Weekday(series[q].t) # Weekday(series[p].t)

UnseenHour(p) ==
    \A q \in 1..Len(series) :
        InRegion(q) => Hour(series[q].t) # Hour(series[p].t)

Returned == X_train \o X_test

\* C10: with target encoding, a row whose weekday or hour has no row in the
\* encoding region gets an undefined encoded value and is in neither
\* partition, no error is raised, every returned row is defined in every
\* feature column, and the raw weekday and hour columns are not returned.
C10_UnseenGroups ==
    (Done /\ target_encoding) =>
        /\ outcome = "returned"
        /\ \A p \in 1..Len(series) :
             /\ UnseenWeekday(p) => data[p].c[ColWeekdayAverage] = NaN
             /\ UnseenHour(p) => data[p].c[ColHourAverage] = NaN
             /\ (UnseenWeekday(p) \/ UnseenHour(p)) =>
                    \A j \in 1..Len(Returned) : Returned[j].t # series[p].t
        /\ \A j \in 1..Len(Returned) :
             /\ \A col \in DOMAIN Returned[j].c : Returned[j].c[col] # NaN
             /\ ColHour \notin DOMAIN Returned[j].c
             /\ ColWeekday \notin DOMAIN Returned[j].c
             /\ ColWeekdayAverage \in DOMAIN Returned[j].c
             /\ ColHourAverage \in DOMAIN Returned[j].c

\* a lag-complete row of an unseen group was dropped and other rows returned
C10_Witness ==
    /\ Done /\ target_encoding /\ ValidWindow /\ ValidFraction
    /\ \E p \in lag_end..Len(series) : UnseenHour(p) /\ ~UnseenWeekday(p)
    /\ Len(X_train) >= 1 /\ Len(X_test) >= 1

\* positions (from 1) of the lag-complete rows that come before
\* floor(M * (1 - test_size)) among the M lag-complete rows
LagCompleteRegion ==
    LET N == Len(series)
        M == IF N >= lag_end THEN N - lag_end + 1 ELSE 0
        b == (M * (test_size[2] - test_size[1])) \div test_size[2]
    IN  {q \in 1..N : q >= lag_end /\ q - lag_end < b}

\* values of y over the rows of the set S
ValuesOver(S) ==
    Cells(Column(SelectRows(CopySeries(series), S), ColY))

\* C9: with target encoding, the weekday_average (hour_average) of a row is
\* the mean of y over exactly the lag-complete rows before position
\* floor(M * (1 - test_size)) among the lag-complete rows that share its
\* weekday (hour), and undefined when there is none.
C9_EncodingRegion ==
    (Done /\ target_encoding /\ ValidWindow /\ ValidFraction) =>
        \A p \in 1..Len(series) :
            LET wd == {q \in LagCompleteRegion :
                          Weekday(series[q].t) = Weekday(series[p].t)}
                hr == {q \in LagCompleteRegion :
                          Hour(series[q].t) = Hour(series[p].t)}
            IN  /\ IF wd = {} THEN data[p].c[ColWeekdayAverage] = NaN
                   ELSE IsMeanOf(data[p].c[ColWeekdayAverage], ValuesOver(wd))
                /\ IF hr = {} THEN data[p].c[ColHourAverage] = NaN
                   ELSE IsMeanOf(data[p].c[ColHourAverage], ValuesOver(hr))

\* timestamp and encoded values of the rows of a partition
Encoded(rows) ==
    [j \in 1..Len(rows) |->
        <<rows[j].t, rows[j].c[ColWeekdayAverage], rows[j].c[ColHourAverage]>>]

\* C1: with target encoding, a valid window and a valid fraction, changing the
\* value y of any one row of the returned test partition changes no
\* weekday_average or hour_average value of any returned row.
C1_NoLeakage ==
    (Done /\ target_encoding /\ ValidWindow /\ ValidFraction) =>
        \A q \in 1..Len(series), v \in Values :
            (\E i \in 1..Len(X_test) : X_test[i].t = series[q].t) =>
                LET r == prepareData([series EXCEPT ![q].y = v], lag_start,
                                     lag_end, test_size, target_encoding)
                IN  /\ Encoded(r.X_train) = Encoded(X_train)
                    /\ Encoded(r.X_test) = Encoded(X_test)

\* C5: a call with lag_start < 1 or lag_end <= lag_start fails with
\* InvalidWindow and never returns a dataset.
C5_InvalidWindow ==
    ~ValidWindow => (outcome # "returned" /\ (Done => outcome = "InvalidWindow"))

\* C6: a call with test_size outside (0, 1) fails with InvalidFraction and
\* never returns a dataset.
C6_InvalidFraction ==
    ~ValidFraction => (outcome # "returned" /\ (Done => outcome = "InvalidFraction"))

\* C7: a call with a valid window and fraction either returns a dataset whose
\* train and test partitions both hold at least one row, or fails with
\* InsufficientData before any feature is computed.
C7_InsufficientData ==
    (ValidWindow /\ ValidFraction) =>
        /\ outcome = "returned" => (Len(X_train) >= 1 /\ Len(X_test) >= 1)
        /\ Done => outcome \in {"returned", "InsufficientData"}
        /\ outcome = "InsufficientData" => data = NoFrame

\* the observations moving_average is applied to
Observations == Cells(Column(CopySeries(series), ColY))

\* the last k observations
LastObservations(k) ==
    SubSeq(Observations, Len(Observations) - k + 1, Len(Observations))

====
